---- MODULE Spec2Model ----
(***************************************************************************)
(* A model of src/utils.py of the GHEJ-Index repository: the historical    *)
(* 95th-percentile engine (calculate_historical_percentiles), the grid     *)
(* alignment (align_data), the exceedance counter (temperature_index), the *)
(* region aggregator (get_region_values) and the multi-model summary       *)
(* (temperature_index_all_models).                                         *)
(*                                                                         *)
(* Each function is a state machine of its own; the module holds one       *)
(* specification per function (SpecHist, SpecAlign, SpecCount, SpecRegion, *)
(* SpecAll).  The variables of the functions a specification does not run  *)
(* stay at their idle values.                                              *)
(***************************************************************************)
EXTENDS Integers, Sequences, FiniteSets, TLC

VARIABLES
    \* ---- calculate_historical_percentiles (utils.py 10-63)
    hpc,                \* position in the function
    archive,            \* which synthetic ERA5 archive is on disk
    present,            \* years whose yearly file exists and is readable
    step,               \* the band size argument
    lat,                \* loop variable of `for lat in lats`
    yi,                 \* index of the loop variable of `for year in years`
    temporal_lat_data,  \* list of the loaded per-year slices
    data,               \* the local `data` (dataset, then slice)
    temporal_data,      \* concatenation of the band's slices
    p95_bands,          \* list of per-band percentile fields
    bandYears,          \* history: the years each band's percentile was computed from
    outfile,            \* content of era5_t2m_max_<y0>-<y1>_p95.nc
    prior               \* content of that file when the run started

    \* ---- align_data (utils.py 71-94)
VARIABLES
    afield,             \* the field as it is after the calls made so far
    ahist,              \* history: the input field, then the result of each call
    acalls              \* history: the arguments of each call

histVars == <<hpc, archive, present, step, lat, yi, temporal_lat_data, data,
              temporal_data, p95_bands, bandYears, outfile, prior>>

alignVars == <<afield, ahist, acalls>>

    \* ---- get_region_values (utils.py 167-209), called on its own
VARIABLES
    rpc,                \* "call" before the call, "returned" after it
    rin,                \* the arguments: the three fields, the file name, the year
    regions_df          \* the data frame returned

regionVars == <<rpc, rin, regions_df>>

    \* ---- temperature_index (213-273) and temperature_index_all_models (277-318)
VARIABLES
    pc,                 \* position in the two functions
    caller,             \* "all_models", or "direct" when temperature_index is called alone
    world,              \* the data on disk: model grid, model values, threshold file
    files,              \* glob.glob(...): the model files, in the order returned
    req_years,          \* the argument `years`
    fi,                 \* index of the loop variable of `for file in files`
    model_file_name,    \* the argument of temperature_index
    year_range,         \* np.arange(start_year, end_year + 1), as a set
    ti,                 \* index of the loop variable of `for year in years`
    p95_hist,           \* the threshold field (re-assigned by line 259)
    models_data,        \* the merged table (final_data inside temperature_index)
    tilog,              \* history: one record per processed (file, year)
    summary             \* the value returned by temperature_index_all_models

indexVars == <<pc, caller, world, files, req_years, fi, model_file_name, year_range,
               ti, p95_hist, models_data, tilog, summary>>

vars == <<histVars, alignVars, regionVars, indexVars>>

----------------------------------------------------------------------------
(* Generic helpers *)

Range(s) == {s[i] : i \in DOMAIN s}

RECURSIVE SumSeq(_)
SumSeq(s) == IF s = <<>> THEN 0 ELSE Head(s) + SumSeq(Tail(s))

RECURSIVE FlattenSeq(_)
FlattenSeq(ss) == IF ss = <<>> THEN <<>> ELSE Head(ss) \o FlattenSeq(Tail(ss))

\* The k-th smallest element (1-based) of a non-empty sequence of integers.
Kth(s, k) ==
    CHOOSE v \in Range(s) :
        /\ Cardinality({i \in DOMAIN s : s[i] < v}) < k
        /\ k <= Cardinality({i \in DOMAIN s : s[i] <= v})

----------------------------------------------------------------------------
(* calculate_historical_percentiles *)

\* Latitude rows of the ERA5 grid (720 in the source), bounded for checking.
NLat == 4
\* Largest band size tried; larger than NLat so that one band may cover all.
MaxStep == 5
\* Number of requested years and of days in a yearly file.
NYears == 2
NDays == 2
\* Number of synthetic archives the initial state chooses from.
NArchives == 2

FirstYear == 1995

\* years: the requested reference period, np.arange(FirstYear, FirstYear + NYears)
years == [i \in 1..NYears |-> FirstYear + i - 1]

\* The value of t2m on day d of year y at latitude row i in archive k.
T2m(k, y, i, d) == ((k + 1) * i + k * (y - FirstYear) + (i + 1) * d * (y - FirstYear + 1) + d) % 7

\* lats = range(0, 720, step)
lats(st) == {l \in 0..(NLat - 1) : l % st = 0}

\* The last row (exclusive) of slice(lat, lat + step) on an axis of NLat rows.
SliceStopMutant(l, st) == IF l + st - 1 < NLat THEN l + st - 1 ELSE NLat
SliceStop(l, st) == IF l + st < NLat THEN l + st ELSE NLat

\* The row indices selected by isel(latitude=slice(lat, lat + step)), in order.
SliceRows(l, st) == [j \in 1..(SliceStop(l, st) - l) |-> l + j - 1]

\* The value of `data` before the first file is opened.
NoData == [kind |-> "none", band |-> -1, year |-> 0, latitude |-> <<>>, t2m |-> <<>>]

\* xr.open_dataset(data_path + data_name) of the yearly file of year y.
OpenDataset(y) == [kind |-> "dataset", band |-> -1, year |-> y, latitude |-> <<>>, t2m |-> <<>>]

\* data['t2m'].isel(latitude=slice(lat, lat + step)): a lazy view, nothing read yet.
Isel(ds, l, st) ==
    [kind |-> "lazy", band |-> l, year |-> ds.year, latitude |-> SliceRows(l, st), t2m |-> <<>>]

\* data.load(): reads the view's values in place and returns the same object.
Load(k, d) ==
    [d EXCEPT !.kind = "loaded",
              !.t2m = [j \in DOMAIN d.latitude |->
                          [dd \in 1..NDays |-> T2m(k, d.year, d.latitude[j], dd)]]]

\* xr.concat(temporal_lat_data, dim='valid_time')
ConcatTime(slices) ==
    [latitude |-> slices[1].latitude,
     years    |-> [j \in DOMAIN slices |-> slices[j].year],
     t2m      |-> [r \in DOMAIN slices[1].latitude |->
                      FlattenSeq([j \in DOMAIN slices |-> slices[j].t2m[r]])]]

\* quantile(0.95) of a sample, numpy's linear interpolation between order
\* statistics, times 100 (so that the value is an integer).
Quantile95(samples) ==
    LET n  == Len(samples)
        h  == (n - 1) * 95
        lo == h \div 100
        fr == h % 100
        a  == Kth(samples, lo + 1)
        b  == IF lo + 2 <= n THEN Kth(samples, lo + 2) ELSE a
    IN  100 * a + fr * (b - a)

\* temporal_data.quantile(0.95, dim='valid_time'): one value per latitude row.
QuantileBand(td) ==
    [r \in DOMAIN td.latitude |->
        [latitude |-> td.latitude[r], t2m_max_p95 |-> Quantile95(td.t2m[r])]]

\* xr.concat(p95_bands, dim='latitude')
ConcatLat(bands) == FlattenSeq(bands)

\* The threshold file: absent, left by an earlier complete run, or written by
\* this run (p95_final.to_netcdf).
NoFile == [state |-> "absent", t2m_max_p95 |-> <<>>]
PriorFile == [state |-> "prior run", t2m_max_p95 |-> <<>>]
ToNetcdf(field) == [state |-> "written", t2m_max_p95 |-> field]

\* What the loop does when a yearly file cannot be opened: the exception of
\* xr.open_dataset propagates (there is no try/except around it).
OnMissingFileMutant == "skip"
OnMissingFile == "raise"

\* What line 41 leaves in temporal_lat_data at the start of a band.
FreshListMutant(old) == old
FreshList(old) == <<>>

HistIdle ==
    /\ hpc = "idle"
    /\ archive = 0
    /\ present = {}
    /\ step = 0
    /\ lat = -1
    /\ yi = 0
    /\ temporal_lat_data = <<>>
    /\ data = NoData
    /\ temporal_data = <<>>
    /\ p95_bands = <<>>
    /\ bandYears = <<>>
    /\ outfile = NoFile
    /\ prior = NoFile

HistInit ==
    /\ hpc = "for_lat"
    /\ archive \in 1..NArchives
    /\ present \in SUBSET Range(years)
    /\ step \in 1..MaxStep
    /\ lat = -1
    /\ yi = 0
    /\ temporal_lat_data = <<>>
    /\ data = NoData
    /\ temporal_data = <<>>
    /\ p95_bands = <<>>
    /\ bandYears = <<>>
    /\ outfile \in {NoFile, PriorFile}
    /\ prior = outfile

\* line 37: for lat in lats
ForLat ==
    /\ hpc = "for_lat"
    /\ LET nxt == IF lat = -1 THEN 0 ELSE lat + step
       IN  IF nxt \in lats(step)
           THEN /\ lat' = nxt
                /\ hpc' = "reset"
           ELSE /\ lat' = lat
                /\ hpc' = "final"
    /\ UNCHANGED <<archive, present, step, yi, temporal_lat_data, data,
                   temporal_data, p95_bands, bandYears, outfile, prior,
                   alignVars, regionVars, indexVars>>

\* line 41: temporal_lat_data = []
ResetList ==
    /\ hpc = "reset"
    /\ temporal_lat_data' = FreshList(temporal_lat_data)
    /\ yi' = 0
    /\ hpc' = "for_year"
    /\ UNCHANGED <<archive, present, step, lat, data, temporal_data,
                   p95_bands, bandYears, outfile, prior,
                   alignVars, regionVars, indexVars>>

\* line 43: for year in years
ForYear ==
    /\ hpc = "for_year"
    /\ IF yi < NYears
       THEN /\ yi' = yi + 1
            /\ hpc' = "open"
       ELSE /\ yi' = yi
            /\ hpc' = "concat"
    /\ UNCHANGED <<archive, present, step, lat, temporal_lat_data, data,
                   temporal_data, p95_bands, bandYears, outfile, prior,
                   alignVars, regionVars, indexVars>>

\* lines 46-47: with xr.open_dataset(data_path + data_name) as data
OpenYear ==
    /\ hpc = "open"
    /\ IF years[yi] \in present
       THEN /\ data' = OpenDataset(years[yi])
            /\ hpc' = "isel"
       ELSE /\ data' = data
            /\ hpc' = IF OnMissingFile = "raise" THEN "error" ELSE "for_year"
    /\ UNCHANGED <<archive, present, step, lat, yi, temporal_lat_data,
                   temporal_data, p95_bands, bandYears, outfile, prior,
                   alignVars, regionVars, indexVars>>

\* line 48: data = data['t2m'].isel(latitude=slice(lat, lat + step))
IselBand ==
    /\ hpc = "isel"
    /\ data' = Isel(data, lat, step)
    /\ hpc' = "load"
    /\ UNCHANGED <<archive, present, step, lat, yi, temporal_lat_data,
                   temporal_data, p95_bands, bandYears, outfile, prior,
                   alignVars, regionVars, indexVars>>

\* line 49: temporal_lat_data.append(data.load())
LoadSlice ==
    /\ hpc = "load"
    /\ data' = Load(archive, data)
    /\ temporal_lat_data' = Append(temporal_lat_data, data')
    /\ hpc' = "for_year"
    /\ UNCHANGED <<archive, present, step, lat, yi, temporal_data,
                   p95_bands, bandYears, outfile, prior,
                   alignVars, regionVars, indexVars>>

\* line 52: temporal_data = xr.concat(temporal_lat_data, dim='valid_time')
ConcatYears ==
    /\ hpc = "concat"
    /\ IF temporal_lat_data = <<>>
       THEN \* xr.concat of an empty list raises ValueError
            /\ temporal_data' = temporal_data
            /\ hpc' = "error"
       ELSE /\ temporal_data' = ConcatTime(temporal_lat_data)
            /\ hpc' = "quantile"
    /\ UNCHANGED <<archive, present, step, lat, yi, temporal_lat_data, data,
                   p95_bands, bandYears, outfile, prior,
                   alignVars, regionVars, indexVars>>

\* lines 55-56: p95_bands.append(temporal_data.quantile(0.95, dim='valid_time'))
QuantileStep ==
    /\ hpc = "quantile"
    /\ p95_bands' = Append(p95_bands, QuantileBand(temporal_data))
    /\ bandYears' = Append(bandYears, temporal_data.years)
    /\ hpc' = "for_lat"
    /\ UNCHANGED <<archive, present, step, lat, yi, temporal_lat_data, data,
                   temporal_data, outfile, prior,
                   alignVars, regionVars, indexVars>>

\* lines 61-63: p95_final = xr.concat(p95_bands, dim='latitude'); to_netcdf
WriteFinal ==
    /\ hpc = "final"
    /\ outfile' = ToNetcdf(ConcatLat(p95_bands))
    /\ hpc' = "done"
    /\ UNCHANGED <<archive, present, step, lat, yi, temporal_lat_data, data,
                   temporal_data, p95_bands, bandYears, prior,
                   alignVars, regionVars, indexVars>>

\* The environment: a yearly file disappears or becomes unreadable mid-run.
RemoveFile ==
    /\ hpc \notin {"done", "error"}
    /\ \E y \in present : present' = present \ {y}
    /\ UNCHANGED <<hpc, archive, step, lat, yi, temporal_lat_data, data,
                   temporal_data, p95_bands, bandYears, outfile, prior,
                   alignVars, regionVars, indexVars>>

HistNext ==
    \/ ForLat
    \/ ResetList
    \/ ForYear
    \/ OpenYear
    \/ IselBand
    \/ LoadSlice
    \/ ConcatYears
    \/ QuantileStep
    \/ WriteFinal
    \/ RemoveFile


(* ---- properties of calculate_historical_percentiles ---- *)

\* All daily values of latitude row i over the requested years, in time order.
RowSamples(k, i) ==
    FlattenSeq([j \in 1..NYears |-> [d \in 1..NDays |-> T2m(k, years[j], i, d)]])

\* The per-cell 95th percentile computed in one pass over the whole grid.
SinglePass(k) ==
    [r \in 1..NLat |->
        [latitude |-> r - 1, t2m_max_p95 |-> Quantile95(RowSamples(k, r - 1))]]

NumBands == Cardinality(lats(step))

\* C1: the threshold field assembled from the latitude bands equals, row for
\* row and in the same latitude order, the single-pass percentile field, for
\* every band size (also one that does not divide the number of rows).
C1_BandingEqualsSinglePass ==
    hpc = "done" => outfile = ToNetcdf(SinglePass(archive))

\* C1 witness: a finished run with several bands, the last one short.
C1_Witness ==
    /\ hpc = "done"
    /\ step < NLat
    /\ NLat % step # 0
    /\ Len(p95_bands) >= 2
    /\ Len(p95_bands[Len(p95_bands)]) < step
    /\ outfile.state = "written"

\* C6: a yearly file that cannot be opened ends the run in an error; no year
\* is skipped (the slices held are those of the first years in order, every
\* finished band was computed from all requested years), and the threshold
\* file changes only when every band is complete, so a failed run leaves the
\* file as it found it.
C6_FailFastNoPartialOutput ==
    /\ \A j \in DOMAIN temporal_lat_data : temporal_lat_data[j].year = years[j]
    /\ \A b \in DOMAIN bandYears : bandYears[b] = years
    /\ outfile # prior =>
          /\ hpc = "done"
          /\ Len(p95_bands) = NumBands
          /\ Len(bandYears) = NumBands
    /\ hpc = "error" => outfile = prior
    /\ (hpc = "isel" \/ hpc = "load") => data.year = years[yi]

\* C6 witness: the run failed after at least one band was complete, with the
\* threshold file of an earlier run still in place.
C6_Witness ==
    /\ hpc = "error"
    /\ Len(p95_bands) >= 1
    /\ prior = PriorFile
    /\ outfile = PriorFile

\* The per-year slices held in memory: those in the list and the one the local
\* `data` refers to (load() loads in place, so it is the list's last element
\* until `data` is rebound).
Held ==
    Range(temporal_lat_data) \cup (IF data.kind = "loaded" THEN {data} ELSE {})

\* A band is being loaded or reduced: from the opening of its first yearly
\* file (which rebinds `data`) to the computation of its percentile.
InBand ==
    \/ hpc \in {"isel", "load", "concat", "quantile"}
    \/ hpc = "for_year" /\ yi >= 1
    \/ hpc = "open" /\ yi >= 2

\* C10: the slices held never number more than the requested years, and
\* while a band is loaded or reduced they all belong to that band, one per
\* year: the previous band's slices are released (line 41, and `data` at line
\* 47) before the first slice of the next band is loaded.
C10_SlicesOfOneBand ==
    /\ Cardinality(Held) <= NYears
    /\ Len(temporal_lat_data) <= NYears
    /\ InBand =>
          /\ \A s \in Held : s.band = lat
          /\ \A i, j \in DOMAIN temporal_lat_data :
                 i # j => temporal_lat_data[i].year # temporal_lat_data[j].year

\* C10 witness: a later band holds a slice of every requested year.
C10_Witness ==
    /\ lat > 0
    /\ hpc = "concat"
    /\ Len(temporal_lat_data) = NYears
    /\ Len(p95_bands) >= 1

----------------------------------------------------------------------------
(* align_data *)

\* Number of longitude columns of a field and of successive calls modelled.
NLon == 3
MaxAlignCalls == 2

\* 273.15 K in hundredths of a degree (line 86).
Kelvin0 == 27315

\* Longitudes a raw field may carry, in degrees: both conventions, the seam
\* (180, 360) and values outside [0, 360).
LonVals == {-270, -180, -90, 0, 90, 180, 270, 360}

\* Names a raw field may give its longitude coordinate.
LonNames == {"lon", "longitude"}

\* The argument combinations modelled: (celsius, longitude_shift, standar_names).
AlignArgs ==
    { [celsius |-> FALSE, longitude_shift |-> TRUE,  standar_names |-> FALSE],
      [celsius |-> TRUE,  longitude_shift |-> TRUE,  standar_names |-> TRUE],
      [celsius |-> FALSE, longitude_shift |-> FALSE, standar_names |-> TRUE] }

\* line 92: (lon + 180) % 360 - 180
LonShiftMutant(lon) == (lon + 180) % 360
LonShift(lon) == ((lon + 180) % 360) - 180

\* sortby("longitude"): a stable ascending sort of the columns (np.lexsort).
SortRank(cells, i) ==
    Cardinality({j \in DOMAIN cells : cells[j].longitude < cells[i].longitude})
    + Cardinality({j \in DOMAIN cells : j < i /\ cells[j].longitude = cells[i].longitude})
    + 1
SortByLongitude(cells) ==
    [p \in DOMAIN cells |-> cells[CHOOSE i \in DOMAIN cells : SortRank(cells, i) = p]]

\* lines 98-127: homogenize_lat_lon renames a known synonym to 'longitude'.
HomogenizeLatLon(f) ==
    IF f.lonname \in {"lon", "Lon", "LON", "nav_lon", "lon_bnds"}
    THEN [f EXCEPT !.lonname = "longitude"]
    ELSE f

\* lines 85-94: align_data
AlignData(f, celsius, longitude_shift, standar_names) ==
    LET f1 == IF celsius
              THEN [f EXCEPT !.cells = [i \in DOMAIN f.cells |->
                        [f.cells[i] EXCEPT !.tasmax = @ - Kelvin0]]]
              ELSE f
        f2 == IF standar_names THEN HomogenizeLatLon(f1) ELSE f1
    IN  IF ~longitude_shift
        THEN f2
        ELSE IF f2.lonname # "longitude"
             THEN \* data.coords['longitude'] raises KeyError
                  [f2 EXCEPT !.ok = FALSE]
             ELSE [f2 EXCEPT !.cells = SortByLongitude(
                      [i \in DOMAIN f2.cells |->
                          [f2.cells[i] EXCEPT !.longitude = LonShift(@)]])]

AlignIdle ==
    /\ afield = [lonname |-> "longitude", cells |-> <<>>, ok |-> TRUE]
    /\ ahist = <<>>
    /\ acalls = <<>>

AlignInit ==
    /\ \E nm \in LonNames, lons \in [1..NLon -> LonVals] :
          afield = [lonname |-> nm,
                    cells   |-> [i \in 1..NLon |->
                                    [longitude |-> lons[i], tasmax |-> 28000 + 100 * i]],
                    ok      |-> TRUE]
    /\ ahist = <<afield>>
    /\ acalls = <<>>

\* One call data = align_data(data, ...)
AlignCall ==
    /\ afield.ok
    /\ Len(acalls) < MaxAlignCalls
    /\ \E a \in AlignArgs :
          /\ afield' = AlignData(afield, a.celsius, a.longitude_shift, a.standar_names)
          /\ acalls' = Append(acalls, a)
    /\ ahist' = Append(ahist, afield')
    /\ UNCHANGED <<histVars, regionVars, indexVars>>

AlignNext == AlignCall

(* ---- properties of align_data ---- *)

\* A call that applies the longitude shift and nothing that changes values.
ShiftCall(i) ==
    /\ acalls[i].longitude_shift
    /\ ~acalls[i].celsius
    /\ ahist[i + 1].ok

\* Longitudes in [-180, 180), in ascending order.
Shifted(f) ==
    /\ \A i \in DOMAIN f.cells : -180 <= f.cells[i].longitude /\ f.cells[i].longitude < 180
    /\ \A i, j \in DOMAIN f.cells : i < j => f.cells[i].longitude <= f.cells[j].longitude

\* C9: the longitude shift is idempotent (a second application returns the
\* field the first one returned: same coordinates, order and values) and it
\* leaves a field already in [-180, 180) in ascending order as it is.
C9_LongitudeShiftIdempotent ==
    \A i \in DOMAIN acalls :
        ShiftCall(i) =>
            /\ (i >= 2 /\ ShiftCall(i - 1)) => ahist[i + 1] = ahist[i]
            /\ (Shifted(ahist[i]) /\ ahist[i].lonname = "longitude") => ahist[i + 1] = ahist[i]
            /\ Shifted(ahist[i + 1])

\* C9 witness: a field in the 0..360 convention whose columns the first shift
\* reorders, shifted a second time.
C9_Witness ==
    /\ Len(acalls) = 2
    /\ ShiftCall(1) /\ ShiftCall(2)
    /\ ~Shifted(ahist[1])
    /\ \E i \in DOMAIN ahist[1].cells : ahist[1].cells[i].longitude >= 180
    /\ ahist[2].cells # ahist[1].cells
    /\ ahist[2].cells[1].tasmax # ahist[1].cells[1].tasmax
    /\ ahist[3] = ahist[2]

----------------------------------------------------------------------------
(* get_region_values *)

(* Floating-point values that may be undefined. *)
NaN == [nan |-> TRUE, v |-> 0]
Num(x) == [nan |-> FALSE, v |-> x]

(* File and column names are sequences of tokens: "_", "-", ".nc" and atoms
   (a model name, a scenario, a variant label, a date, a year). *)

\* tasmax_day_{model}_{scenario}_{variant}_{grid}_{start}-{end}.nc
FileName(model, scenario, variant, grid, start, end) ==
    <<"tasmax", "_", "day", "_", model, "_", scenario, "_", variant, "_", grid,
      "_", start, "-", end, ".nc">>

\* The atoms that begin with the letter r.
StartsWithR(tok) == tok \in {"r1i1p1f1", "r2i1p1f1", "region"}

\* The atoms that are eight digits, and int(atom[:4]).
DateYears == [d \in {"20240101", "20261231", "20490101", "20511231"} |->
                 CASE d = "20240101" -> 2024
                   [] d = "20261231" -> 2026
                   [] d = "20490101" -> 2049
                   [] d = "20511231" -> 2051]
IsDate(tok) == tok \in DOMAIN DateYears

\* f'{year}' and the atoms that are four digits.
YearStr(y) ==
    CASE y = 2025 -> "2025"
      [] y = 2026 -> "2026"
      [] y = 2030 -> "2030"
      [] y = 2050 -> "2050"
IsYearStr(tok) == tok \in {"2025", "2026", "2030", "2050"}

\* line 184: re.search(r'day_(.*)_r', model_file).group(1): from the first
\* "day_" to the last "_" that an r follows (.* is greedy).
ModelNameMatches(name) ==
    \E i \in DOMAIN name, j \in DOMAIN name :
        /\ name[i] = "day" /\ i + 1 < j /\ name[i + 1] = "_"
        /\ name[j] = "_" /\ j + 1 \in DOMAIN name /\ StartsWithR(name[j + 1])
ModelName(name) ==
    LET i == CHOOSE a \in DOMAIN name :
                 /\ name[a] = "day" /\ a + 1 \in DOMAIN name /\ name[a + 1] = "_"
                 /\ \A b \in 1..(a - 1) :
                       ~(name[b] = "day" /\ name[b + 1] = "_")
        j == CHOOSE a \in DOMAIN name :
                 /\ a > i + 1 /\ name[a] = "_"
                 /\ a + 1 \in DOMAIN name /\ StartsWithR(name[a + 1])
                 /\ \A b \in (a + 1)..Len(name) :
                       ~(name[b] = "_" /\ b + 1 \in DOMAIN name /\ StartsWithR(name[b + 1]))
    IN  SubSeq(name, i + 2, j - 1)

\* line 206: f'{year}_{model_name}'
ColumnName(year, model_name) == <<YearStr(year), "_">> \o model_name

\* values.flatten(): the rows of a 2-D array one after the other (C order).
Flatten(a) == FlattenSeq(a)

\* lines 192-196: the data frame of the three flattened arrays, row i holding
\* position i of each.
RegionsFrame(region_array, excedance_array, pop_array) ==
    [i \in DOMAIN region_array |->
        [IMAGE_region |-> region_array[i],
         T95          |-> excedance_array[i],
         population   |-> pop_array[i]]]

\* line 199: regions_df[~regions_df['IMAGE_region'].isna()]
NotNaRegion(row) == ~row.IMAGE_region.nan
DropNaRegions(df) == SelectSeq(df, NotNaRegion)

\* float division of two sums: 0 / 0 is NaN (numpy warns, nothing is raised).
Divide(n, d) ==
    IF d = 0 THEN [nan |-> TRUE, num |-> 0, den |-> 0]
             ELSE [nan |-> FALSE, num |-> n, den |-> d]

\* line 205: (x['T95'] * x['population']).sum() / x['population'].sum()
WeightedMeanMutant(x) ==
    Divide(SumSeq([i \in DOMAIN x |-> x[i].T95]), Len(x))
WeightedMean(x) ==
    Divide(SumSeq([i \in DOMAIN x |-> x[i].T95 * x[i].population]),
           SumSeq([i \in DOMAIN x |-> x[i].population]))

\* The integers of a finite set in ascending order (groupby sorts its keys).
RECURSIVE Ascending(_)
Ascending(S) ==
    IF S = {} THEN <<>>
    ELSE LET m == CHOOSE x \in S : \A y \in S : x <= y
         IN  <<m>> \o Ascending(S \ {m})

\* lines 202-207: groupby('IMAGE_region').apply(...).reset_index(name=...)
GroupByRegion(df) ==
    LET keys == Ascending({df[i].IMAGE_region.v : i \in DOMAIN df})
        InGroup(k) == LET Is(row) == row.IMAGE_region.v = k IN SelectSeq(df, Is)
    IN  [g \in DOMAIN keys |->
            [IMAGE_region |-> keys[g], value |-> WeightedMean(InGroup(keys[g]))]]

\* lines 183-209: get_region_values
GetRegionValues(excedance_count, pop_year, region_mask, model_file, year) ==
    LET model_name == ModelName(model_file)
        regions     == RegionsFrame(Flatten(region_mask), Flatten(excedance_count),
                                    Flatten(pop_year))
    IN  [column |-> ColumnName(year, model_name),
         rows   |-> GroupByRegion(DropNaRegions(regions))]

\* The shape of the fields handed to get_region_values when called on its own.
RegionShape == <<2, 2>>
RegionIds == {NaN, Num(1), Num(2)}
Counts == {5, 15}
Populations == {0, 10, 30}
Fields(S) == [1..RegionShape[1] -> [1..RegionShape[2] -> S]]

RegionIdle ==
    /\ rpc = "idle"
    /\ rin = <<>>
    /\ regions_df = <<>>

RegionInit ==
    /\ rpc = "call"
    /\ \E m \in Fields(RegionIds), c \in Fields(Counts), q \in Fields(Populations),
          y \in {2025} :
          rin = [region_mask     |-> m,
                 excedance_count |-> c,
                 pop_year        |-> q,
                 model_file      |-> FileName("MIROC6", "ssp126", "r1i1p1f1", "gn",
                                              "20240101", "20261231"),
                 year            |-> y]
    /\ regions_df = <<>>

\* The call final_regions = get_region_values(...)
CallGetRegionValues ==
    /\ rpc = "call"
    /\ regions_df' = GetRegionValues(rin.excedance_count, rin.pop_year, rin.region_mask,
                                     rin.model_file, rin.year)
    /\ rpc' = "returned"
    /\ UNCHANGED <<rin, histVars, alignVars, indexVars>>

RegionNext == CallGetRegionValues

(* ---- properties of get_region_values ---- *)

RECURSIVE SumOver(_, _)
SumOver(S, f) ==
    IF S = {} THEN 0
    ELSE LET x == CHOOSE y \in S : TRUE IN f[x] + SumOver(S \ {x}, f)

GridCells == (1..RegionShape[1]) \X (1..RegionShape[2])
CellsOf(r) == {c \in GridCells : rin.region_mask[c[1]][c[2]] = Num(r)}
MaskRegions == {r \in 1..2 : CellsOf(r) # {}}
PopOf(r) == SumOver(CellsOf(r), [c \in GridCells |-> rin.pop_year[c[1]][c[2]]])
ExposureOf(r) ==
    SumOver(CellsOf(r),
            [c \in GridCells |-> rin.excedance_count[c[1]][c[2]] * rin.pop_year[c[1]][c[2]]])
RowsOf(r) == {i \in DOMAIN regions_df.rows : regions_df.rows[i].IMAGE_region = r}

C4_ZeroPopulationNotNaN ==
    rpc = "returned" =>
        \A i \in DOMAIN regions_df.rows : ~regions_df.rows[i].value.nan

----------------------------------------------------------------------------
(* temperature_index and temperature_index_all_models *)

\* Number of synthetic model data sets and of files glob may return.
NSeeds == 2
MaxFiles == 2

\* The rows of the empty table of line 280: np.arange(1, 28, 1.)
NumRegions == 27

\* The model files that may be in model_path.
AllFiles ==
    { FileName("ACCESS-CM2", "ssp126", "r1i1p1f1", "gn", "20240101", "20261231"),
      FileName("ACCESS-CM2", "ssp126", "r2i1p1f1", "gn", "20240101", "20261231"),
      FileName("MIROC6",     "ssp126", "r1i1p1f1", "gn", "20240101", "20261231"),
      FileName("ACCESS-CM2", "ssp585", "r1i1p1f1", "gn", "20240101", "20261231"),
      FileName("MIROC6",     "ssp585", "r1i1p1f1", "gn", "20240101", "20261231"),
      FileName("ACCESS-CM2", "ssp126", "r1i1p1f1", "gn", "20490101", "20511231"),
      FileName("MIROC6",     "ssp126", "r1i1p1f1", "gn", "20490101", "20511231"),
      FileName("ACCESS-CM2", "ssp126", "r2i1p1f1", "gn", "20490101", "20511231") }

\* The parts of a file name, by the naming convention.
FileModel(f) == f[5]
FileScenario(f) == f[7]
FileVariant(f) == f[9]

\* The lists `years` a caller may pass (future_95_percentile.py line 25 passes
\* [2025, 2030, 2050]); no file of AllFiles covers 2030.
YearLists == {<<2025>>, <<2050>>, <<2025, 2030>>, <<2025, 2050>>, <<2025, 2026>>}

\* line 243: re.search(r'_(\d{8})-(\d{8})', model_file_name)
DateMatch(name) ==
    CHOOSE i \in DOMAIN name :
        /\ i + 3 \in DOMAIN name
        /\ name[i] = "_" /\ IsDate(name[i + 1]) /\ name[i + 2] = "-" /\ IsDate(name[i + 3])
        /\ \A b \in 1..(i - 1) :
              ~(name[b] = "_" /\ IsDate(name[b + 1]) /\ name[b + 2] = "-" /\ IsDate(name[b + 3]))
\* lines 244-248: np.arange(start_year, end_year + 1)
YearRange(name) ==
    LET i == DateMatch(name)
        start_year == DateYears[name[i + 1]]
        end_year   == DateYears[name[i + 3]]
    IN  start_year..end_year

(* The data on disk.  Temperatures are in hundredths of a degree. *)

\* The (month, day) of the days a model file holds for each year it covers.
DaysOfYear == <<<<1, 1>>, <<7, 2>>, <<12, 31>>>>

\* The raw longitudes of a model grid (0..360 convention) and the longitudes of
\* the threshold file (either convention).
RawLonChoices == {<<0, 90, 270>>, <<90, 180, 270>>}
HistLonChoices == {<<-180, 0, 180>>, <<0, 180, 360>>}
ThresholdValues == {3000, 3002}

Worlds ==
    [seed : 1..NSeeds, rawlons : RawLonChoices, histlons : HistLonChoices,
     thr : [1..3 -> ThresholdValues]]

Salt(tok) ==
    CASE tok = "ACCESS-CM2" -> 1
      [] tok = "MIROC6"     -> 2
      [] tok = "ssp126"     -> 0
      [] tok = "ssp585"     -> 2
      [] tok = "r1i1p1f1"   -> 0
      [] tok = "r2i1p1f1"   -> 1

\* tasmax (Kelvin) of a model file on a date at raw column j.
RawTasmax(w, f, date, j) ==
    Kelvin0 + 2999
    + ((w.seed * (date[1] + date[3]) + j * date[2] + w.seed * j
        + Salt(FileModel(f)) + Salt(FileScenario(f)) + Salt(FileVariant(f))) % 5)

\* The dates of a model file: the days of every year of its range, in order.
FileDates(f) ==
    LET ys == YearRange(f)
        first == CHOOSE y \in ys : \A z \in ys : y <= z
        n == Len(DaysOfYear)
    IN  [k \in 1..(Cardinality(ys) * n) |->
            <<first + ((k - 1) \div Len(DaysOfYear)),
              DaysOfYear[((k - 1) % Len(DaysOfYear)) + 1][1],
              DaysOfYear[((k - 1) % Len(DaysOfYear)) + 1][2]>>]

\* line 237: xr.open_dataset(model_path + model_file_name)['tasmax']: one raw
\* field per date.
OpenTasmax(w, f) ==
    LET dates == FileDates(f)
    IN  [valid_time |-> dates,
         fields     |-> [k \in DOMAIN dates |->
                           [lonname |-> "lon",
                            cells   |-> [j \in DOMAIN w.rawlons |->
                                            [longitude |-> w.rawlons[j],
                                             tasmax    |-> RawTasmax(w, f, dates[k], j)]],
                            ok      |-> TRUE]]]

\* line 240: align_data(tas_max['tasmax'], celsius=True, longitude_shift=True,
\* standar_names=True), applied to the field of every date.
AlignTasmax(t) ==
    [t EXCEPT !.fields = [k \in DOMAIN t.fields |-> AlignData(t.fields[k], TRUE, TRUE, TRUE)]]

\* The longitude coordinate of an aligned model field.
Longitudes(t) == [j \in DOMAIN t.fields[1].cells |-> t.fields[1].cells[j].longitude]

\* line 234: xr.open_dataset(data_path + 'p95.nc')
OpenP95(w) ==
    [longitude |-> w.histlons, t2m_max_p95 |-> [j \in 1..3 |-> Num(w.thr[j])]]

\* Dates compare as (year, month, day).
DateLeq(a, b) ==
    \/ a[1] < b[1]
    \/ a[1] = b[1] /\ a[2] < b[2]
    \/ a[1] = b[1] /\ a[2] = b[2] /\ a[3] <= b[3]

\* line 256: tas_max.sel(valid_time=slice(f'{year}-01-01', f'{year}-12-31'))
SelYear(t, year) ==
    LET keep == {k \in DOMAIN t.valid_time :
                    /\ DateLeq(<<year, 1, 1>>, t.valid_time[k])
                    /\ DateLeq(t.valid_time[k], <<year, 12, 31>>)}
        idx  == Ascending(keep)
    IN  [valid_time |-> [n \in DOMAIN idx |-> t.valid_time[idx[n]]],
         fields     |-> [n \in DOMAIN idx |-> t.fields[idx[n]]]]

\* Linear interpolation of (xs, ys) at x, as scipy's interp1d does it: NaN
\* outside [xs[1], xs[n]]; inside, on the segment [lo, hi] where hi is the
\* first knot >= x (at least the second knot); NaN if either end is NaN.
InterpAt(xs, ys, x) ==
    LET n == Len(xs) IN
    IF x < xs[1] \/ x > xs[n] THEN NaN
    ELSE LET first == CHOOSE k \in 1..n : xs[k] >= x /\ \A m \in 1..(k - 1) : xs[m] < x
             hi == IF first < 2 THEN 2 ELSE first
             lo == hi - 1
         IN  IF ys[lo].nan \/ ys[hi].nan THEN NaN
             ELSE Num(ys[lo].v + ((ys[hi].v - ys[lo].v) * (x - xs[lo])) \div (xs[hi] - xs[lo]))

\* line 259: p95_hist.interp(longitude=tas_max.longitude, ...)
InterpP95(p, lons) ==
    [longitude   |-> lons,
     t2m_max_p95 |-> [j \in DOMAIN lons |-> InterpAt(p.longitude, p.t2m_max_p95, lons[j])]]

\* tas_max_year > p95_hist at one cell on one day (a comparison with NaN is False).
ExceedsMutant(v, thr) == ~thr.nan /\ v >= thr.v
Exceeds(v, thr) == ~thr.nan /\ v > thr.v

\* line 262: (tas_max_year > p95_hist).sum(dim='valid_time')
ExcedanceCount(tas_max_year, p) ==
    [j \in DOMAIN p.longitude |->
        Cardinality({k \in DOMAIN tas_max_year.fields :
                        Exceeds(tas_max_year.fields[k].cells[j].tasmax, p.t2m_max_p95[j])})]

\* GPOP_SSP1_M.nc and GREG.nc, on a 90-degree grid.
GpopTimes == <<2020, 2050>>
Gpop == [longitude |-> <<-180, -90, 0, 90, 180>>,
         GPOP |-> <<<<Num(10), Num(30), Num(0), Num(20), Num(10)>>,
                    <<Num(20), Num(40), Num(0), Num(30), Num(20)>>>>]
Greg == [longitude |-> <<-180, -90, 0, 90, 180>>,
         GREG |-> <<Num(1), Num(1), Num(2), NaN, Num(1)>>]

\* pop.sel(time=f'{year}', method='nearest')
NearestTime(year) ==
    IF year - GpopTimes[1] <= GpopTimes[2] - year THEN 1 ELSE 2

\* interp(..., method='nearest'): the value at the nearest knot, NaN outside.
NearestAt(xs, ys, x) ==
    IF x < xs[1] \/ x > xs[Len(xs)] THEN NaN
    ELSE LET Dist(k) == IF xs[k] >= x THEN xs[k] - x ELSE x - xs[k]
             k == CHOOSE a \in DOMAIN xs :
                      \A b \in DOMAIN xs : Dist(a) < Dist(b) \/ (Dist(a) = Dist(b) /\ a <= b)
         IN  ys[k]

\* lines 150-163: pop_and_regions; one row of latitude, so the fields are 1 x n.
PopYear(year, lons) ==
    <<[j \in DOMAIN lons |->
        InterpAt(Gpop.longitude, Gpop.GPOP[NearestTime(year)], lons[j]).v]>>
ImageRegions(lons) ==
    <<[j \in DOMAIN lons |-> NearestAt(Greg.longitude, Greg.GREG, lons[j])]>>

(* The merged table: the region ids (an index at first, a column after the
   first merge) and the value columns. *)

EmptyTable ==
    [key_in |-> "index", keys |-> 1..NumRegions, columns |-> <<>>]

\* line 271: final_data.merge(final_regions, on='IMAGE_region', how='outer');
\* a value column named like the new one gets the suffix _x, the new one _y.
Merge(final_data, final_regions, src) ==
    LET clash == \E c \in DOMAIN final_data.columns :
                     final_data.columns[c].name = final_regions.column
        left  == [c \in DOMAIN final_data.columns |->
                    IF final_data.columns[c].name = final_regions.column
                    THEN [final_data.columns[c] EXCEPT !.name = @ \o <<"_", "x">>]
                    ELSE final_data.columns[c]]
        right == [name |-> IF clash THEN final_regions.column \o <<"_", "y">>
                                    ELSE final_regions.column,
                  vals |-> final_regions.rows,
                  src  |-> src]
    IN  [key_in  |-> "column",
         keys    |-> final_data.keys \cup
                       {final_regions.rows[i].IMAGE_region : i \in DOMAIN final_regions.rows},
         columns |-> Append(left, right)]

\* models_data.columns: the names of the columns of the table.
ColumnNames(t) ==
    (IF t.key_in = "column" THEN <<(<<"IMAGE", "_", "region">>)>> ELSE <<>>)
    \o [c \in DOMAIN t.columns |-> t.columns[c].name]

\* line 292: str.extract(r'(?P<year>\d{4})_(?P<model>.+?)_(?P<scenario>.+)'):
\* the first year atom followed by "_", a shortest model, "_", and the rest.
ExtractMatches(name) ==
    \E i \in DOMAIN name, j \in DOMAIN name :
        /\ IsYearStr(name[i]) /\ i + 1 \in DOMAIN name /\ name[i + 1] = "_"
        /\ j >= i + 3 /\ name[j] = "_" /\ j < Len(name)
NoMatch == [year |-> <<"nan">>, model |-> <<"nan">>, scenario |-> <<"nan">>]
Extract(name) ==
    IF ~ExtractMatches(name) THEN NoMatch
    ELSE LET Ok(i, j) == /\ IsYearStr(name[i]) /\ i + 1 \in DOMAIN name /\ name[i + 1] = "_"
                         /\ j >= i + 3 /\ name[j] = "_" /\ j < Len(name)
             i == CHOOSE a \in DOMAIN name :
                      /\ \E j \in DOMAIN name : Ok(a, j)
                      /\ \A b \in 1..(a - 1) : ~\E j \in DOMAIN name : Ok(b, j)
             j == CHOOSE a \in DOMAIN name :
                      Ok(i, a) /\ \A b \in 1..(a - 1) : ~Ok(i, b)
         IN  [year     |-> <<name[i]>>,
              model    |-> SubSeq(name, i + 2, j - 1),
              scenario |-> SubSeq(name, j + 1, Len(name))]

\* line 299: year + '_' + scenario (a missing value prints as 'nan')
GroupKey(name) == Extract(name).year \o <<"_">> \o Extract(name).scenario

\* group_keys.unique(): the keys in order of first appearance.
RECURSIVE Unique(_)
Unique(ks) ==
    IF ks = <<>> THEN <<>>
    ELSE LET front == Unique(SubSeq(ks, 1, Len(ks) - 1))
             last  == ks[Len(ks)]
         IN  IF last \in Range(front) THEN front ELSE Append(front, last)

IndexIdle ==
    /\ pc = "idle"
    /\ caller = "none"
    /\ world = <<>>
    /\ files = <<>>
    /\ req_years = <<>>
    /\ fi = 0
    /\ model_file_name = <<>>
    /\ year_range = {}
    /\ ti = 0
    /\ p95_hist = <<>>
    /\ models_data = <<>>
    /\ tilog = <<>>
    /\ summary = <<>>

(*SECTIONS*)

\* The sequences of at most n distinct files, in any order (glob's order).
RECURSIVE FileLists(_)
FileLists(n) ==
    IF n = 0 THEN {<<>>}
    ELSE LET shorter == FileLists(n - 1)
         IN  shorter \cup {Append(l, f) : l \in shorter, f \in AllFiles}

Distinct(l) == \A a, b \in DOMAIN l : a # b => l[a] # l[b]

\* The worlds used when a whole directory of files is processed.
WorldsAll ==
    {w \in Worlds : w.seed = 1 /\ w.rawlons = <<0, 90, 270>>
                    /\ w.thr = [j \in 1..3 |-> IF j = 2 THEN 3002 ELSE 3000]}

\* temperature_index_all_models(model_path, data_path, pop_path, years)
AllInit ==
    /\ pc = "for_file"
    /\ caller = "all_models"
    /\ world \in WorldsAll
    /\ files \in {l \in FileLists(MaxFiles) : l # <<>> /\ Distinct(l)}
    /\ req_years \in YearLists
    /\ fi = 0
    /\ model_file_name = <<>>
    /\ year_range = {}
    /\ ti = 0
    /\ p95_hist = <<>>
    /\ models_data = EmptyTable
    /\ tilog = <<>>
    /\ summary = <<>>

\* temperature_index(years, model_path, data_path, pop_file, final_data,
\* model_file_name) called on its own with an empty table.
CountInit ==
    /\ pc = "ti_open"
    /\ caller = "direct"
    /\ world \in Worlds
    /\ \E f \in AllFiles : files = <<f>> /\ model_file_name = f
    /\ req_years \in YearLists
    /\ fi = 1
    /\ year_range = {}
    /\ ti = 0
    /\ p95_hist = <<>>
    /\ models_data = EmptyTable
    /\ tilog = <<>>
    /\ summary = <<>>

\* tas_max of lines 237-240, for the file being processed.
TasMax == AlignTasmax(OpenTasmax(world, model_file_name))

\* lines 286-287: for file in files: temperature_index(..., os.path.basename(file))
ForFile ==
    /\ pc = "for_file"
    /\ IF fi < Len(files)
       THEN /\ fi' = fi + 1
            /\ model_file_name' = files[fi + 1]
            /\ pc' = "ti_open"
       ELSE /\ fi' = fi
            /\ model_file_name' = model_file_name
            /\ pc' = "summary"
    /\ UNCHANGED <<caller, world, files, req_years, year_range, ti, p95_hist,
                   models_data, tilog, summary, histVars, alignVars, regionVars>>

\* lines 234-248: open the threshold and the model file, align, parse the range
TIOpen ==
    /\ pc = "ti_open"
    /\ p95_hist' = OpenP95(world)
    /\ year_range' = YearRange(model_file_name)
    /\ ti' = 0
    /\ LET tas_max == TasMax
       IN  pc' = IF \A k \in DOMAIN tas_max.fields : tas_max.fields[k].ok
                 THEN "ti_for_year" ELSE "error"
    /\ UNCHANGED <<caller, world, files, req_years, fi, model_file_name,
                   models_data, tilog, summary, histVars, alignVars, regionVars>>

\* lines 251-253: the next year is in year_range
TIYearInRange ==
    /\ pc = "ti_for_year"
    /\ ti < Len(req_years)
    /\ req_years[ti + 1] \in year_range
    /\ ti' = ti + 1
    /\ pc' = "ti_body"
    /\ UNCHANGED <<caller, world, files, req_years, fi, model_file_name, year_range,
                   p95_hist, models_data, tilog, summary, histVars, alignVars, regionVars>>

\* lines 251-253: the next year is not in year_range; nothing is done for it
TIYearSkipped ==
    /\ pc = "ti_for_year"
    /\ ti < Len(req_years)
    /\ req_years[ti + 1] \notin year_range
    /\ ti' = ti + 1
    /\ UNCHANGED <<pc, caller, world, files, req_years, fi, model_file_name, year_range,
                   p95_hist, models_data, tilog, summary, histVars, alignVars, regionVars>>

\* line 251: the loop over years ends
TIYearsDone ==
    /\ pc = "ti_for_year"
    /\ ti = Len(req_years)
    /\ pc' = "ti_return"
    /\ UNCHANGED <<caller, world, files, req_years, fi, model_file_name, year_range, ti,
                   p95_hist, models_data, tilog, summary, histVars, alignVars, regionVars>>

\* lines 256-271: the body of the loop for a year of the file's range
TIBody ==
    /\ pc = "ti_body"
    /\ LET year            == req_years[ti]
           tas_max         == TasMax
           tas_max_year    == SelYear(tas_max, year)
           p95             == InterpP95(p95_hist, Longitudes(tas_max))
           excedance_count == ExcedanceCount(tas_max_year, p95)
           population      == PopYear(year, Longitudes(tas_max))
           image_regions   == ImageRegions(Longitudes(tas_max))
           final_regions   == GetRegionValues(<<excedance_count>>, population,
                                              image_regions, model_file_name, year)
           src             == [file |-> model_file_name, year |-> year]
       IN  /\ p95_hist' = p95
           /\ models_data' = Merge(models_data, final_regions, src)
           /\ tilog' = Append(tilog, [file   |-> model_file_name,
                                      year   |-> year,
                                      p95    |-> p95,
                                      count  |-> excedance_count,
                                      column |-> final_regions.column])
    /\ pc' = "ti_for_year"
    /\ UNCHANGED <<caller, world, files, req_years, fi, model_file_name, year_range, ti,
                   summary, histVars, alignVars, regionVars>>

\* line 273: return final_data, year (year is unbound if years is empty)
TIReturn ==
    /\ pc = "ti_return"
    /\ pc' = IF Len(req_years) = 0 THEN "error"
             ELSE IF caller = "direct" THEN "ti_done" ELSE "for_file"
    /\ UNCHANGED <<caller, world, files, req_years, fi, model_file_name, year_range, ti,
                   p95_hist, models_data, tilog, summary, histVars, alignVars, regionVars>>

\* The columns of the table with what they hold: the region ids (once they
\* are a column) and the value columns.
TableColumns(t) ==
    (IF t.key_in = "column"
     THEN <<[name |-> <<"IMAGE", "_", "region">>, src |-> [file |-> <<>>, year |-> 0]]>>
     ELSE <<>>)
    \o [c \in DOMAIN t.columns |-> [name |-> t.columns[c].name, src |-> t.columns[c].src]]

\* lines 302-305: one mean (or std) column per group, over the group's columns
GroupColumns(t, stat) ==
    LET cols   == TableColumns(t)
        keys   == [c \in DOMAIN cols |-> GroupKey(cols[c].name)]
        groups == Unique(keys)
    IN  [g \in DOMAIN groups |->
            [name |-> groups[g] \o <<"_", stat>>,
             stat |-> stat,
             over |-> LET In(c) == GroupKey(c.name) = groups[g] IN SelectSeq(cols, In)]]

SentinelName == <<"nan", "_", "nan", "_", "model-mean">>

\* lines 308-316: concat, set_index('nan_nan_model-mean'), merge with the names
Summary(t) ==
    LET df_summary == GroupColumns(t, "model-mean") \o GroupColumns(t, "model-std")
        NotSentinel(c) == c.name # SentinelName
    IN  [index   |-> t.keys \cap (1..NumRegions),
         columns |-> <<[name |-> <<"Region">>, stat |-> "name", over |-> <<>>]>>
                     \o SelectSeq(df_summary, NotSentinel)]

\* lines 292-318: the summary; set_index raises KeyError when no column is
\* named 'nan_nan_model-mean'
Summarise ==
    /\ pc = "summary"
    /\ IF \E c \in DOMAIN GroupColumns(models_data, "model-mean") :
             GroupColumns(models_data, "model-mean")[c].name = SentinelName
       THEN /\ summary' = Summary(models_data)
            /\ pc' = "done"
       ELSE /\ summary' = summary
            /\ pc' = "error"
    /\ UNCHANGED <<caller, world, files, req_years, fi, model_file_name, year_range, ti,
                   p95_hist, models_data, tilog, histVars, alignVars, regionVars>>

CountNext ==
    \/ TIOpen
    \/ TIYearInRange
    \/ TIYearSkipped
    \/ TIYearsDone
    \/ TIBody
    \/ TIReturn

AllNext ==
    \/ ForFile
    \/ TIOpen
    \/ TIYearInRange
    \/ TIYearSkipped
    \/ TIYearsDone
    \/ TIBody
    \/ TIReturn
    \/ Summarise

(* ---- properties of temperature_index ---- *)

\* The model daily maximum, in Celsius, of file f at longitude lon on the
\* date: the raw column whose shifted longitude is lon.
DailyMax(w, f, date, lon) ==
    LET r == CHOOSE a \in DOMAIN w.rawlons : LonShift(w.rawlons[a]) = lon
    IN  RawTasmax(w, f, date, r) - Kelvin0

\* The days of year y in file f on which the daily maximum at longitude lon
\* is strictly greater than the threshold thr.
DaysAbove(w, f, y, lon, thr) ==
    {k \in DOMAIN FileDates(f) :
        /\ FileDates(f)[k][1] = y
        /\ ~thr.nan
        /\ DailyMax(w, f, FileDates(f)[k], lon) > thr.v}

\* C2: for every processed year and every cell, the exceedance count is the
\* number of days of that year whose daily maximum is strictly greater than
\* the re-gridded threshold of that cell (a day equal to the threshold and the
\* days of other years are not counted); it is an integer between 0 and the
\* number of days of the year.
C2_CountIsDaysStrictlyAbove ==
    \A e \in DOMAIN tilog :
        /\ tilog[e].year \in YearRange(tilog[e].file)
        /\ \A j \in DOMAIN tilog[e].count :
              /\ tilog[e].count[j] =
                    Cardinality(DaysAbove(world, tilog[e].file, tilog[e].year,
                                          tilog[e].p95.longitude[j],
                                          tilog[e].p95.t2m_max_p95[j]))
              /\ tilog[e].count[j] \in 0..Len(DaysOfYear)

\* C2 witness: a processed year with a cell where one day equals the
\* threshold, another exceeds it and the count is neither 0 nor all days.
C2_Witness ==
    \E e \in DOMAIN tilog : \E j \in DOMAIN tilog[e].count :
        LET thr == tilog[e].p95.t2m_max_p95[j]
            lon == tilog[e].p95.longitude[j]
            f   == tilog[e].file
        IN  /\ ~thr.nan
            /\ tilog[e].count[j] >= 1
            /\ tilog[e].count[j] < Len(DaysOfYear)
            /\ \E k \in DOMAIN FileDates(f) :
                  /\ FileDates(f)[k][1] = tilog[e].year
                  /\ DailyMax(world, f, FileDates(f)[k], lon) = thr.v
            /\ \E k \in DOMAIN FileDates(f) :
                  /\ FileDates(f)[k][1] # tilog[e].year
                  /\ DailyMax(world, f, FileDates(f)[k], lon) > thr.v

(* ---- properties of temperature_index_all_models ---- *)

ValueColumns == models_data.columns
FileScenarios == {FileScenario(files[i]) : i \in DOMAIN files}
SummaryNames == {summary.columns[c].name : c \in DOMAIN summary.columns}
StatName(y, sc, stat) == <<YearStr(y), "_", sc, "_", stat>>

\* C5: a requested year outside a file's range is skipped for that file only
\* (no column for it, the years inside the range still processed) and is not
\* fatal: the run never ends in an error, whatever the files and years, also
\* when no file covers any requested year.
C5_OutOfRangeYearNotFatal ==
    /\ \A e \in DOMAIN tilog : tilog[e].year \in YearRange(tilog[e].file)
    /\ Len(ValueColumns) = Len(tilog)
    /\ pc \in {"summary", "done"} =>
          \A i \in DOMAIN files : \A y \in Range(req_years) :
              y \in YearRange(files[i]) =>
                  \E e \in DOMAIN tilog : tilog[e].file = files[i] /\ tilog[e].year = y
    /\ pc # "error"

\* C7: every processed (file, year) has one column whose name parses back to
\* the file's year, model and scenario, and once the summary is made the mean
\* and std of (year, scenario) are over exactly the columns of the files of
\* that scenario that cover that year, one per file.
C7_ColumnsParseBackAndGroup ==
    /\ Len(ValueColumns) = Len(tilog)
    /\ \A c \in DOMAIN ValueColumns :
          Extract(ValueColumns[c].name) =
              [year     |-> <<YearStr(ValueColumns[c].src.year)>>,
               model    |-> <<FileModel(ValueColumns[c].src.file)>>,
               scenario |-> <<FileScenario(ValueColumns[c].src.file)>>]
    /\ pc = "done" =>
          \A e \in DOMAIN tilog :
              \A stat \in {"model-mean", "model-std"} :
                  \E c \in DOMAIN summary.columns :
                      /\ summary.columns[c].name
                            = StatName(tilog[e].year, FileScenario(tilog[e].file), stat)
                      /\ {summary.columns[c].over[m].src : m \in DOMAIN summary.columns[c].over}
                            = {[file |-> tilog[d].file, year |-> tilog[d].year] :
                                  d \in {d \in DOMAIN tilog :
                                            /\ tilog[d].year = tilog[e].year
                                            /\ FileScenario(tilog[d].file)
                                                  = FileScenario(tilog[e].file)}}
                      /\ Len(summary.columns[c].over)
                            = Cardinality({d \in DOMAIN tilog :
                                            /\ tilog[d].year = tilog[e].year
                                            /\ FileScenario(tilog[d].file)
                                                  = FileScenario(tilog[e].file)})

\* C8: besides the region name, the returned table has exactly the mean and
\* the std column of every requested (year, scenario) combination and no
\* other column.
C8_SummaryColumnsExact ==
    pc = "done" =>
        SummaryNames \ {<<"Region">>} =
            {StatName(y, sc, stat) : y \in Range(req_years), sc \in FileScenarios,
                                     stat \in {"model-mean", "model-std"}}

----------------------------------------------------------------------------
(* Specifications: one per function; the other functions' variables idle. *)

InitHist == HistInit /\ AlignIdle /\ RegionIdle /\ IndexIdle
SpecHist == InitHist /\ [][HistNext]_vars

InitRegion == RegionInit /\ HistIdle /\ AlignIdle /\ IndexIdle
SpecRegion == InitRegion /\ [][RegionNext]_vars

InitCount == CountInit /\ HistIdle /\ AlignIdle /\ RegionIdle
SpecCount == InitCount /\ [][CountNext]_vars

InitAll == AllInit /\ HistIdle /\ AlignIdle /\ RegionIdle
SpecAll == InitAll /\ [][AllNext]_vars

InitAlign == AlignInit /\ HistIdle /\ RegionIdle /\ IndexIdle
SpecAlign == InitAlign /\ [][AlignNext]_vars
====
